---- MODULE Spec2Model ----
(***************************************************************************)
(* Model of shop.py (Shopi-Py): shop pages (discord.ui.View), their        *)
(* selection widgets, the BackButton and the NavigationHandler.            *)
(*                                                                         *)
(* A page is identified by its index in `pages` (object identity).  A      *)
(* NavigationHandler is identified by its index in `handlers`.             *)
(***************************************************************************)
EXTENDS Integers, Sequences, FiniteSets, TLC

VARIABLES
    pages,      \* ShopPage objects built so far: [items, embed, on_select]
                \* (on_select: the argument the page was built with)
    children,   \* children[p]: the View's controls of page p (View.children)
    handlers,   \* live NavigationHandler objects: [to_page, from_page]
    current,    \* current[s]: the page the message of session s shows (0: none)
    last,       \* the last event handled and what it did
    pending     \* pending[s]: the edit_message call the callback of session s
                \* is suspended at (op "none": no callback is suspended)

vars == <<pages, children, handlers, current, last, pending>>

----------------------------------------------------------------------------
(* Bounds *)

NumSessions == 2
MaxLen == 2
MaxHandlers == 2
MaxPages == 2
MaxDigits == 7

Sessions == 1..NumSessions

----------------------------------------------------------------------------
(* Catalog data: ShopItem and ShopCategory are plain dataclasses *)

Shop(title, currency) == [title |-> title, currency |-> currency]

ShopItem(id, name, price) == [kind |-> "item", id |-> id, name |-> name, price |-> price]

ShopCategory(id, name, navigate_to) ==
    [kind |-> "category", id |-> id, name |-> name, navigate_to |-> navigate_to]

\* Items a listing may be drawn from; two of them share the id "i1".
ItemPool == {ShopItem("i1", "Hammer", 50), ShopItem("i2", "Saw", 1234), ShopItem("i1", "Axe", 75)}

\* The shop of the catalogs below
GeneralStore == Shop("General Store", "coins")

SeqsUpTo(S, n) == UNION {[1..k -> S] : k \in 0..n}

\* The handler given to a page: None or a caller-supplied coroutine.
OnSelectArgs == {"None", "custom"}

\* Values a selection event may carry (self.values[0]); "zz" is listed nowhere.
Values == {"i1", "i2", "cA", "cB", "cT", "zz"}

----------------------------------------------------------------------------
(* Controls *)

CategorySelector(categories) == [type |-> "CategorySelector", categories |-> categories]

ItemSelector(items, on_select) ==
    [type |-> "ItemSelector", items |-> items,
     on_select |-> IF on_select # "None" THEN on_select ELSE "on_select_default"]

BackButton(nav_handler) == [type |-> "BackButton", nav_handler |-> nav_handler]

\* A constructor that stores its two pages the wrong way round
NavigationHandler_swapped(to_page, from_page) == [to_page |-> from_page, from_page |-> to_page]

NavigationHandler(to_page, from_page) == [to_page |-> to_page, from_page |-> from_page]

\* [child for child in page.children if isinstance(child, BackButton)]
BackButtons(ch) == SelectSeq(ch, LAMBDA c : c.type = "BackButton")

\* View.add_item
add_item(ch, c) == Append(ch, c)

----------------------------------------------------------------------------
(* ShopPage *)

\* str(n) of a digit
DigitChar(n) == <<"0", "1", "2", "3", "4", "5", "6", "7", "8", "9">>[n + 1]

\* The decimal digits of a non-negative integer
RECURSIVE Decimal(_)
Decimal(n) == IF n < 10 THEN <<DigitChar(n)>>
              ELSE Decimal(n \div 10) \o <<DigitChar(n % 10)>>

\* A grouping that does not pad a group to three digits
RECURSIVE format_price_unpadded(_)
format_price_unpadded(p) ==
    IF p < 1000 THEN Decimal(p)
    ELSE format_price_unpadded(p \div 1000) \o <<",">> \o Decimal(p % 1000)

\* f'{item.price:,d}' of a non-negative price: its decimal digits, with a
\* comma before every full group of three digits counted from the right
RECURSIVE format_price(_)
format_price(p) ==
    IF p < 1000 THEN Decimal(p)
    ELSE format_price(p \div 1000) \o <<",">>
         \o <<DigitChar((p % 1000) \div 100), DigitChar((p % 100) \div 10), DigitChar(p % 10)>>

\* The grave accent that opens and closes the code span around a price
CodeMark == "grave"

\* ShopPage.__create_embed: one field per listed entry; the name of the field
\* is kept as the sequence of the pieces of its f-string (a price as the
\* sequence of its characters); no entry has an icon
create_embed(shop, items) ==
    [i \in 1..Len(items) |->
        [name |-> IF items[i].kind = "category"
                  THEN <<"", " ", items[i].name>>
                  ELSE <<"", " ", items[i].name, " | ", CodeMark>>
                       \o format_price(items[i].price)
                       \o <<CodeMark, " ", shop.currency>>,
         kind |-> items[i].kind]]

\* ShopPage.__init__: the embed is built, then items[0] picks the widget.
\* Returns the error raised, or the page and its first controls.
ShopPage(shop, items, on_select) ==
    LET embed == create_embed(shop, items) IN
    IF Len(items) = 0
    THEN [error |-> "IndexError"]
    ELSE [error |-> "none",
          page |-> [shop |-> shop, items |-> items, embed |-> embed,
                    on_select |-> on_select],
          children |-> IF items[1].kind = "category"
                       THEN add_item(<<>>, CategorySelector(items))
                       ELSE add_item(<<>>, ItemSelector(items, on_select))]

----------------------------------------------------------------------------
(* NavigationHandler *)

\* navigate() without the check for an existing back-control
navigate_always_adds(h, hrec, ch) ==
    [children |-> [ch EXCEPT ![hrec.to_page] = add_item(@, BackButton(h))],
     page |-> hrec.to_page]

\* navigate() that replaces an existing back-control by one bound to h
navigate_rebinds(h, hrec, ch) ==
    [children |-> [ch EXCEPT ![hrec.to_page] =
                        add_item(SelectSeq(@, LAMBDA c : c.type # "BackButton"), BackButton(h))],
     page |-> hrec.to_page]

\* navigate() that puts the back-control on from_page
navigate_adds_to_from(h, hrec, ch) ==
    [children |-> IF BackButtons(ch[hrec.from_page]) = <<>>
                  THEN [ch EXCEPT ![hrec.from_page] = add_item(@, BackButton(h))]
                  ELSE ch,
     page |-> hrec.to_page]

\* navigate() that looks for an existing back-control on from_page
navigate_checks_from(h, hrec, ch) ==
    [children |-> IF BackButtons(ch[hrec.from_page]) = <<>>
                  THEN [ch EXCEPT ![hrec.to_page] = add_item(@, BackButton(h))]
                  ELSE ch,
     page |-> hrec.to_page]

\* navigate() that returns to_page and adds nothing
navigate_never_adds(h, hrec, ch) == [children |-> ch, page |-> hrec.to_page]

\* NavigationHandler.navigate of handler object h (record hrec) on controls ch:
\* the controls after the call and the page returned.
navigate(h, hrec, ch) ==
    [children |-> IF BackButtons(ch[hrec.to_page]) = <<>>
                  THEN [ch EXCEPT ![hrec.to_page] = add_item(@, BackButton(h))]
                  ELSE ch,
     page |-> hrec.to_page]

\* go_back() that returns the page navigated to
go_back_to_page(hrec) == hrec.to_page

\* NavigationHandler.go_back
go_back(hrec) == hrec.from_page

----------------------------------------------------------------------------
(* Events *)

Event(op, s, h, v, p, ret, err, added, called) ==
    [op |-> op, session |-> s, handler |-> h, value |-> v, page |-> p,
     returned |-> ret, error |-> err, added |-> added, called |-> called,
     listing |-> <<>>, shown |-> <<>>]

\* A callback that hands the view to edit_message before navigate() has run
view_at_render_before(before, after, page) == before[page]

\* The controls of the view given to edit_message(embed=page.embed, view=page):
\* the call comes after navigate() has returned (before, after: the controls
\* of all pages when the callback starts and when navigate() has returned).
view_at_render(before, after, page) == after[page]

\* bool(obj) of a dataclass instance: it defines neither __bool__ nor __len__
Truthy(obj) == TRUE

\* The error CategorySelector.callback raises for a selection it cannot resolve
UnknownSelectionError == "ValueError"

\* A resolution that takes the first entry whatever the chosen value
Matching_ignores_value(listing, v) == listing

\* [x for x in listing if x.id == value]
Matching(listing, v) == SelectSeq(listing, LAMBDA e : e.id = v)

\* The controls of page p that are of the given type
ControlsOf(p, type) == {i \in 1..Len(children[p]) : children[p][i].type = type}

\* An edit that takes effect although the platform reported a failure
edit_message_ignores_failure(s, page, ok) == [current EXCEPT ![s] = page]

\* interaction.response.edit_message(embed=page.embed, view=page): on success
\* the message of session s shows `page`; on failure it raises and shows what
\* it showed before.
edit_message(s, page, ok) == IF ok THEN [current EXCEPT ![s] = page] ELSE current

\* CategorySelector.callback of the selector on the page session s is shown,
\* with self.values[0] = v; ok: whether the platform's edit_message succeeds.
CategorySelector_callback(s, v, ok) ==
    /\ current[s] # 0
    /\ \E i \in ControlsOf(current[s], "CategorySelector") :
        LET self == children[current[s]][i]
            view == current[s]
            found == Matching(self.categories, v)
        IN
        IF found = <<>>
        THEN \* [...][0] on an empty list
             /\ last' = Event("category_select", s, 0, v, view, 0, "IndexError", FALSE, <<>>)
             /\ UNCHANGED <<pages, children, handlers, current, pending>>
        ELSE
        LET selected_category == found[1] IN
        IF ~Truthy(selected_category)
        THEN \* raise ValueError(f'No category found with ID:...')
             /\ last' = Event("category_select", s, 0, v, view, 0, UnknownSelectionError, FALSE, <<>>)
             /\ UNCHANGED <<pages, children, handlers, current, pending>>
        ELSE
        IF selected_category.kind # "category"
        THEN \* a ShopItem has no navigate_to
             /\ last' = Event("category_select", s, 0, v, view, 0, "AttributeError", FALSE, <<>>)
             /\ UNCHANGED <<pages, children, handlers, current, pending>>
        ELSE
        LET h == Len(handlers) + 1
            nav_handler == NavigationHandler(selected_category.navigate_to, view)
            nav == navigate(h, nav_handler, children)
            page == nav.page
            added == nav.children # children
        IN
        /\ children' = nav.children
        \* the handler stays alive only if a BackButton now refers to it
        /\ handlers' = IF added THEN Append(handlers, nav_handler) ELSE handlers
        /\ current' = edit_message(s, page, ok)
        /\ last' = [Event("category_select", s, h, v, view, page,
                          IF ok THEN "none" ELSE "HTTPException", added, <<>>)
                    EXCEPT !.shown = view_at_render(children, nav.children, page)]
        /\ UNCHANGED <<pages, pending>>

\* ItemSelector.callback of the selector on the page session s is shown
ItemSelector_callback(s, v) ==
    /\ current[s] # 0
    /\ \E i \in ControlsOf(current[s], "ItemSelector") :
        LET self == children[current[s]][i]
            view == current[s]
            found == Matching(self.items, v)
        IN
        IF found = <<>>
        THEN /\ last' = Event("item_select", s, 0, v, view, 0, "IndexError", FALSE, <<>>)
             /\ UNCHANGED <<pages, children, handlers, current, pending>>
        ELSE
        LET selected_item == found[1] IN
        \* await self.on_select(interaction=interaction, item=selected_item);
        \* on_select_default sends a new message and edits nothing
        /\ last' = Event("item_select", s, 0, v, view, 0, "none", FALSE,
                         <<[on_select |-> self.on_select, item |-> selected_item]>>)
        /\ UNCHANGED <<pages, children, handlers, current, pending>>

\* A back press that also takes the back-control off the page it leaves
BackButton_callback_pops(s, ok) ==
    /\ current[s] # 0
    /\ \E i \in ControlsOf(current[s], "BackButton") :
        LET self == children[current[s]][i]
            view == current[s]
            page == go_back(handlers[self.nav_handler])
        IN
        /\ current' = edit_message(s, page, ok)
        /\ children' = [children EXCEPT ![view] = SelectSeq(@, LAMBDA c : c.type # "BackButton")]
        /\ last' = Event("back_press", s, self.nav_handler, "", view, page,
                         IF ok THEN "none" ELSE "HTTPException", FALSE, <<>>)
        /\ UNCHANGED <<pages, handlers, pending>>

\* BackButton.callback of a BackButton on the page session s is shown
BackButton_callback(s, ok) ==
    /\ current[s] # 0
    /\ \E i \in ControlsOf(current[s], "BackButton") :
        LET self == children[current[s]][i]
            view == current[s]
            page == go_back(handlers[self.nav_handler])
        IN
        /\ current' = edit_message(s, page, ok)
        /\ last' = [Event("back_press", s, self.nav_handler, "", view, page,
                          IF ok THEN "none" ELSE "HTTPException", FALSE, <<>>)
                    EXCEPT !.shown = view_at_render(children, children, page)]
        /\ UNCHANGED <<pages, children, handlers, pending>>

----------------------------------------------------------------------------
(* The catalog the sessions browse.  Pages are built leaves first, since a *)
(* ShopCategory holds its navigate_to page: page 1 (Tools) lists items,    *)
(* page 2 (Garden) lists Tools, page 3 (Home) lists Tools and Garden, and  *)
(* the top page lists Home and Garden.  Tools and Garden are each listed   *)
(* on two pages.                                                           *)

CategoryListings ==
    <<  <<>>,
        <<ShopCategory("cT", "Tools", 1)>>,
        <<ShopCategory("cT", "Tools", 1), ShopCategory("cB", "Garden", 2)>>,
        <<ShopCategory("cA", "Home", 3), ShopCategory("cB", "Garden", 2)>> >>

PageIds == DOMAIN CategoryListings
Top == Len(CategoryListings)

ItemListings == {l \in SeqsUpTo(ItemPool, MaxLen) : l # <<>>}

Catalog(items, on_select) ==
    [p \in PageIds |-> IF p = 1 THEN ShopPage(GeneralStore, items, on_select)
                    ELSE ShopPage(GeneralStore, CategoryListings[p], "None")]

\* No callback of the session is suspended
NoRender == [op |-> "none", page |-> 0]

NoEvent == Event("none", 0, 0, "", 0, 0, "none", FALSE, <<>>)

ToolsListing == <<ShopItem("i1", "Hammer", 50), ShopItem("i2", "Saw", 1234)>>

Init ==
    \E on_select \in OnSelectArgs :
        LET built == Catalog(ToolsListing, on_select) IN
        /\ pages = [p \in PageIds |-> built[p].page]
        /\ children = [p \in PageIds |-> built[p].children]
        /\ handlers = <<>>
        /\ current = [s \in Sessions |-> Top]
        /\ last = NoEvent
        /\ pending = [s \in Sessions |-> NoRender]

CategorySelect == \E s \in Sessions, v \in Values, ok \in BOOLEAN : CategorySelector_callback(s, v, ok)
ItemSelect == \E s \in Sessions, v \in Values : ItemSelector_callback(s, v)
BackPress == \E s \in Sessions, ok \in BOOLEAN : BackButton_callback(s, ok)

Next == CategorySelect \/ ItemSelect \/ BackPress

Spec == Init /\ [][Next]_vars

----------------------------------------------------------------------------
(* Direct use of NavigationHandler: a caller builds a handler from any     *)
(* pair of pages and calls navigate() and go_back() on it any number of    *)
(* times.                                                                  *)

NewHandler(to_page, from_page) ==
    /\ Len(handlers) < MaxHandlers
    /\ handlers' = Append(handlers, NavigationHandler(to_page, from_page))
    /\ last' = Event("new_handler", 0, Len(handlers) + 1, "", 0, 0, "none", FALSE, <<>>)
    /\ UNCHANGED <<pages, children, current, pending>>

CallNavigate(h) ==
    LET nav == navigate(h, handlers[h], children) IN
    /\ children' = nav.children
    /\ last' = Event("navigate", 0, h, "", 0, nav.page, "none", nav.children # children, <<>>)
    /\ UNCHANGED <<pages, handlers, current, pending>>

CallGoBack(h) ==
    /\ last' = Event("go_back", 0, h, "", 0, go_back(handlers[h]), "none", FALSE, <<>>)
    /\ UNCHANGED <<pages, children, handlers, current, pending>>

Construct == \E to_page \in DOMAIN pages, from_page \in DOMAIN pages : NewHandler(to_page, from_page)
Navigate == \E h \in DOMAIN handlers : CallNavigate(h)
GoBack == \E h \in DOMAIN handlers : CallGoBack(h)

NextApi == Construct \/ Navigate \/ GoBack

SpecApi == Init /\ [][NextApi]_vars

----------------------------------------------------------------------------
(* Page construction: the application builds pages from listings of its    *)
(* choice, item pages first, then pages whose categories lead to page 1.   *)

BuildPool == {ShopItem("i1", "Hammer", 50), ShopItem("i2", "Saw", 1234)}
             \cup (IF Len(pages) > 0 THEN {ShopCategory("cT", "Tools", 1)} ELSE {})

BuildPage(items, on_select) ==
    LET built == ShopPage(GeneralStore, items, on_select) IN
    /\ Len(pages) < MaxPages
    /\ IF built.error # "none"
       THEN UNCHANGED <<pages, children>>
       ELSE /\ pages' = Append(pages, built.page)
            /\ children' = Append(children, built.children)
    /\ last' = [Event("build", 0, 0, "", 0,
                      IF built.error = "none" THEN Len(pages) + 1 ELSE 0,
                      built.error, FALSE, <<>>) EXCEPT !.listing = items]
    /\ UNCHANGED <<handlers, current, pending>>

Build == \E items \in SeqsUpTo(BuildPool, MaxLen), on_select \in OnSelectArgs : BuildPage(items, on_select)

InitBuild ==
    /\ pages = <<>>
    /\ children = <<>>
    /\ handlers = <<>>
    /\ current = [s \in Sessions |-> 0]
    /\ last = NoEvent
    /\ pending = [s \in Sessions |-> NoRender]

SpecBuild == InitBuild /\ [][Build]_vars

----------------------------------------------------------------------------
(* A two-page catalog whose item page is built from any item listing: the *)
(* top page (2) lists the one category that leads to the item page (1).    *)

InitItems ==
    \E items \in ItemListings, on_select \in OnSelectArgs :
        LET leaf == ShopPage(GeneralStore, items, on_select)
            top == ShopPage(GeneralStore, CategoryListings[2], "None")
        IN
        /\ pages = <<leaf.page, top.page>>
        /\ children = <<leaf.children, top.children>>
        /\ handlers = <<>>
        /\ current = [s \in Sessions |-> Len(pages)]
        /\ last = NoEvent
        /\ pending = [s \in Sessions |-> NoRender]

SpecItems == InitItems /\ [][Next]_vars

----------------------------------------------------------------------------
(* Pages that list one item of any price, in shops of either currency *)

\* The prices: every number of at most MaxDigits digits drawn from 0, 1, 9
RECURSIVE NumbersUpTo(_)
NumbersUpTo(n) ==
    IF n = 0 THEN {0}
    ELSE {10 * m + d : m \in NumbersUpTo(n - 1), d \in {0, 1, 9}}

Prices == NumbersUpTo(MaxDigits)

Shops == {Shop("General Store", "coins"), Shop("Smithy", "gold")}

BuildPriced(shop, price) ==
    LET items == <<ShopItem("i1", "Hammer", price)>>
        built == ShopPage(shop, items, "None")
    IN
    /\ pages = <<>>
    /\ pages' = Append(pages, built.page)
    /\ children' = Append(children, built.children)
    /\ last' = [Event("build", 0, 0, "", 0, Len(pages) + 1, built.error, FALSE, <<>>)
                EXCEPT !.listing = items]
    /\ UNCHANGED <<handlers, current, pending>>

Price == \E shop \in Shops, price \in Prices : BuildPriced(shop, price)

SpecPrice == InitBuild /\ [][Price]_vars

----------------------------------------------------------------------------
(* A chain catalog Top -> A -> B: page 1 (B) lists items, page 2 (A) lists *)
(* B, and the top page (3) lists A.                                        *)

ChainListings ==
    <<  ToolsListing,
        <<ShopCategory("cB", "Garden", 1)>>,
        <<ShopCategory("cA", "Home", 2)>> >>

InitChain ==
    LET built == [p \in DOMAIN ChainListings |->
                    ShopPage(GeneralStore, ChainListings[p], "None")] IN
    /\ pages = [p \in DOMAIN ChainListings |-> built[p].page]
    /\ children = [p \in DOMAIN ChainListings |-> built[p].children]
    /\ handlers = <<>>
    /\ current = [s \in Sessions |-> Len(ChainListings)]
    /\ last = NoEvent
    /\ pending = [s \in Sessions |-> NoRender]

SpecChain == InitChain /\ [][Next]_vars

----------------------------------------------------------------------------
(* The callbacks as coroutines: each runs without interruption up to its   *)
(* one await, the call of edit_message, where callbacks of other sessions  *)
(* may run before it resumes.  A session has one callback in progress at a *)
(* time.                                                                   *)

\* CategorySelector.callback up to the await: the selection is resolved, the
\* handler built and navigate() called
CategorySelector_callback_begin(s, v) ==
    /\ pending[s] = NoRender
    /\ current[s] # 0
    /\ \E i \in ControlsOf(current[s], "CategorySelector") :
        LET self == children[current[s]][i]
            view == current[s]
            found == Matching(self.categories, v)
        IN
        IF found = <<>>
        THEN /\ last' = Event("category_select", s, 0, v, view, 0, "IndexError", FALSE, <<>>)
             /\ UNCHANGED <<pages, children, handlers, current, pending>>
        ELSE
        LET selected_category == found[1] IN
        IF ~Truthy(selected_category)
        THEN /\ last' = Event("category_select", s, 0, v, view, 0, UnknownSelectionError, FALSE, <<>>)
             /\ UNCHANGED <<pages, children, handlers, current, pending>>
        ELSE
        IF selected_category.kind # "category"
        THEN /\ last' = Event("category_select", s, 0, v, view, 0, "AttributeError", FALSE, <<>>)
             /\ UNCHANGED <<pages, children, handlers, current, pending>>
        ELSE
        LET h == Len(handlers) + 1
            nav_handler == NavigationHandler(selected_category.navigate_to, view)
            nav == navigate(h, nav_handler, children)
            added == nav.children # children
        IN
        /\ children' = nav.children
        /\ handlers' = IF added THEN Append(handlers, nav_handler) ELSE handlers
        /\ pending' = [pending EXCEPT ![s] = [op |-> "category_select", page |-> nav.page]]
        /\ last' = Event("category_select", s, 0, "", 0, 0, "suspended", FALSE, <<>>)
        /\ UNCHANGED <<pages, current>>

\* BackButton.callback up to the await: go_back() is called
BackButton_callback_begin(s) ==
    /\ pending[s] = NoRender
    /\ current[s] # 0
    /\ \E i \in ControlsOf(current[s], "BackButton") :
        LET self == children[current[s]][i]
            view == current[s]
            page == go_back(handlers[self.nav_handler])
        IN
        /\ pending' = [pending EXCEPT ![s] = [op |-> "back_press", page |-> page]]
        /\ last' = Event("back_press", s, 0, "", 0, 0, "suspended", FALSE, <<>>)
        /\ UNCHANGED <<pages, children, handlers, current>>

\* The awaited edit_message of session s completes (ok) or raises (~ok), and
\* the callback ends
edit_message_resume(s, ok) ==
    /\ pending[s] # NoRender
    /\ current' = edit_message(s, pending[s].page, ok)
    /\ pending' = [pending EXCEPT ![s] = NoRender]
    /\ last' = Event("resume", s, 0, "", 0, 0,
                     IF ok THEN "none" ELSE "HTTPException", FALSE, <<>>)
    /\ UNCHANGED <<pages, children, handlers>>

SelectBegin == \E s \in Sessions, v \in Values : CategorySelector_callback_begin(s, v)
BackBegin == \E s \in Sessions : BackButton_callback_begin(s)
Resume == \E s \in Sessions, ok \in BOOLEAN : edit_message_resume(s, ok)
ItemSelectIdle ==
    \E s \in Sessions, v \in Values : pending[s] = NoRender /\ ItemSelector_callback(s, v)

NextAsync == SelectBegin \/ BackBegin \/ Resume \/ ItemSelectIdle

SpecAsync == Init /\ [][NextAsync]_vars

----------------------------------------------------------------------------
(* Vocabulary of the properties *)

\* The positions of the back-controls among the controls of page p
BackAt(p) == {i \in DOMAIN children[p] : children[p][i].type = "BackButton"}

\* The handlers the back-controls of page p are bound to
BoundTo(p) == {children[p][i].nav_handler : i \in BackAt(p)}

NumBack(p) == Cardinality(BackAt(p))

\* The last event is a selection or back press that was handled and rendered
Done(op) == last.op = op /\ last.error = "none"

\* Session s presses the back-control of its page and the render succeeds
BackStep(s) == BackButton_callback(s, TRUE)

----------------------------------------------------------------------------
(* C1: in every state reachable by category selections and back presses,   *)
(* made through any number of handler instances, every page carries at     *)
(* most one back-control.                                                  *)
C1_AtMostOneBack == \A p \in DOMAIN children : NumBack(p) <= 1

\* A selection, made through a fresh handler, targeted a page that already
\* carried the back-control of another handler.
C1_Witness ==
    /\ Done("category_select")
    /\ ~last.added
    /\ NumBack(last.returned) = 1
    /\ last.handler \notin BoundTo(last.returned)

(* C2: navigate() called any number of times on one handler returns the    *)
(* handler's to_page each time, and to_page then carries exactly one       *)
(* back-control, the one this handler's first call added (the one bound    *)
(* to this handler).                                                       *)
C2_NavigateIdempotent ==
    last.op = "navigate" =>
        /\ last.returned = handlers[last.handler].to_page
        /\ NumBack(last.returned) = 1
        /\ BoundTo(last.returned) = {last.handler}

(* C3, as claimed: for a handler built from any pair of pages, go_back()   *)
(* returns the from_page given at construction, and neither navigate() nor *)
(* go_back() changes the controls of from_page.                            *)
C3_RoundTripAnyPair ==
    /\ [](last.op = "go_back" => last.returned = handlers[last.handler].from_page)
    /\ [][\A h \in DOMAIN handlers :
            (CallNavigate(h) \/ CallGoBack(h)) =>
                children'[handlers[h].from_page] = children[handlers[h].from_page]]_vars

(* C3, amended: go_back() returns the from_page given at construction for  *)
(* every pair; navigate() and go_back() leave the controls of from_page    *)
(* unchanged whenever from_page and to_page are different pages.           *)
C3_RoundTrip ==
    /\ [](last.op = "go_back" => last.returned = handlers[last.handler].from_page)
    /\ [][\A h \in DOMAIN handlers :
            /\ CallGoBack(h) => children' = children
            /\ (CallNavigate(h) /\ handlers[h].from_page # handlers[h].to_page) =>
                  children'[handlers[h].from_page] = children[handlers[h].from_page]]_vars

\* go_back() was called on a handler of two different pages whose navigate()
\* had added the back-control of its to_page.
C3_Witness ==
    /\ last.op = "go_back"
    /\ handlers[last.handler].from_page # handlers[last.handler].to_page
    /\ last.handler \in BoundTo(handlers[last.handler].to_page)
    /\ last.returned = handlers[last.handler].from_page

(* C4: when a session on page P selects a category c listed on P, its      *)
(* current page becomes c.navigate_to and that page carries exactly one    *)
(* back-control; pressing that back-control next sets the session's        *)
(* current page back to P and leaves P's controls as they were.            *)
C4_ForwardBack ==
    /\ [](Done("category_select") =>
            /\ \E i \in DOMAIN pages[last.page].items :
                  /\ pages[last.page].items[i].id = last.value
                  /\ pages[last.page].items[i].navigate_to = last.returned
            /\ current[last.session] = last.returned
            /\ NumBack(last.returned) = 1)
    /\ [][(Done("category_select") /\ BackStep(last.session)) =>
            /\ current'[last.session] = last.page
            /\ children'[last.page] = children[last.page]]_vars

(* C5: a back press on the session's current page returns the session to   *)
(* the page on which it made the category selection that brought it to     *)
(* the current page.                                                       *)
C5_BackToInitiator ==
    [][\A s \in Sessions :
        (Done("category_select") /\ last.session = s /\ current[s] = last.returned
            /\ BackStep(s)) => current'[s] = last.page]_vars

Homogeneous(l) == l # <<>> /\ \A i, j \in DOMAIN l : l[i].kind = l[j].kind

C7_ListingValidated ==
    last.op = "build" =>
        IF Homogeneous(last.listing)
        THEN /\ last.error = "none"
             /\ last.returned = Len(pages)
             /\ pages[last.returned].items = last.listing
        ELSE /\ last.error # "none"
             /\ last.returned = 0

(* C8: for either selector, a selection whose value equals no id of the    *)
(* widget's listing fails with the unknown-selection error and changes     *)
(* nothing: same current page, no handler invoked, no back-control added.  *)
Unlisted(e) ==
    /\ e.op \in {"category_select", "item_select"}
    /\ \A i \in DOMAIN pages[e.page].items : pages[e.page].items[i].id # e.value

C8_UnknownSelection ==
    [][Unlisted(last') =>
        /\ last'.error = UnknownSelectionError
        /\ last'.called = <<>>
        /\ UNCHANGED <<pages, children, handlers, current>>]_vars

(* C9: on an item listing with listing-unique ids, selecting the id of a   *)
(* listed item invokes the selector's on_select exactly once, with the     *)
(* listed item of that id; on_select is the handler the page was built     *)
(* with, or the default one when none was given; the current page of the   *)
(* session stays what it was.                                              *)
UniqueIds(l) == \A i, j \in DOMAIN l : l[i].id = l[j].id => i = j

C9_ItemResolved ==
    [][(/\ last'.op = "item_select"
        /\ UniqueIds(pages[last'.page].items)
        /\ \E i \in DOMAIN pages[last'.page].items :
               pages[last'.page].items[i].id = last'.value)
       =>
       /\ last'.error = "none"
       /\ Len(last'.called) = 1
       /\ \E i \in DOMAIN pages[last'.page].items :
             /\ pages[last'.page].items[i] = last'.called[1].item
             /\ pages[last'.page].items[i].id = last'.value
       /\ last'.called[1].on_select =
             (IF pages[last'.page].on_select = "None"
              THEN "on_select_default" ELSE pages[last'.page].on_select)
       /\ current' = current
       /\ current[last'.session] = last'.page]_vars

\* The second item of a two-item listing with unique ids was selected on a
\* page built with a handler of the caller.
C9_Witness ==
    /\ Done("item_select")
    /\ Len(pages[last.page].items) >= 2
    /\ UniqueIds(pages[last.page].items)
    /\ pages[last.page].items[2].id = last.value
    /\ pages[last.page].on_select = "custom"
    /\ Len(last.called) = 1

(* C10, as claimed: no session event changes the controls, the listing or  *)
(* the payload of a constructed page.                                      *)
C10_ReadOnly == [][pages' = pages /\ children' = children]_vars

(* C10, amended: no session event changes the listing or the payload of a  *)
(* page; the controls of a page change only when a category selection      *)
(* targets it while it carries no back-control, and then by exactly one    *)
(* back-control appended; item selections and back presses change no       *)
(* controls.                                                               *)
C10_OnlyBackAdded ==
    [][/\ pages' = pages
       /\ DOMAIN children' = DOMAIN children
       /\ \A p \in DOMAIN children :
            \/ children'[p] = children[p]
            \/ /\ last'.op = "category_select"
               /\ last'.returned = p
               /\ BackAt(p) = {}
               /\ \E h \in DOMAIN handlers' :
                     children'[p] = Append(children[p], BackButton(h))]_vars

\* A category selection has just added the back-control of its target page.
C10_Witness ==
    /\ last.op = "category_select"
    /\ last.added
    /\ NumBack(last.returned) = 1
    /\ Len(children[last.returned]) = 2

(* C11: with two sessions on the same catalog, no event handled in one     *)
(* session changes another session's current page, the controls a page     *)
(* will show it, or the page a back-control returns to.                    *)
C11_SessionsIndependent ==
    [][\A s \in Sessions :
        (last'.session \in Sessions /\ last'.session # s) =>
            /\ current'[s] = current[s]
            /\ children' = children
            /\ \A p \in DOMAIN children : \A h \in BoundTo(p) :
                  handlers'[h].from_page = handlers[h].from_page]_vars

(* C12: when the render of a category selection or of a back press fails,  *)
(* the current page of the session is what it was and nothing is rendered  *)
(* by a retry of the core; the same event can be retried from the same     *)
(* page, and the retry shows the same next page, which carries exactly one *)
(* back-control, with all controls as the failed event left them.          *)
RenderFailed(op) == last.op = op /\ last.error = "HTTPException"

C12_FailStationary ==
    /\ [][last'.error = "HTTPException" => current' = current]_vars
    /\ [](RenderFailed("category_select") =>
            ENABLED CategorySelector_callback(last.session, last.value, TRUE))
    /\ [](RenderFailed("back_press") => ENABLED BackButton_callback(last.session, TRUE))
    /\ [][(RenderFailed("category_select")
            /\ CategorySelector_callback(last.session, last.value, TRUE)) =>
                /\ last'.returned = last.returned
                /\ current'[last.session] = last.returned
                /\ NumBack(last.returned)' = 1
                /\ children' = children
                /\ handlers' = handlers]_vars
    /\ [][(RenderFailed("back_press") /\ BackButton_callback(last.session, TRUE)) =>
                /\ current'[last.session] = last.returned
                /\ children' = children
                /\ handlers' = handlers]_vars

\* The render of a category selection that had just added the back-control
\* of its target failed, and the session is still shown the page it was on.
C12_Witness ==
    /\ RenderFailed("category_select")
    /\ last.added
    /\ current[last.session] = last.page
    /\ last.returned # last.page

(* C16: a back press changes nothing but the current page of its session:  *)
(* every page keeps its controls, every back-control its binding, and the  *)
(* page that was left keeps its back-control.                              *)
C16_BackPressFrame ==
    [][last'.op = "back_press" =>
        /\ pages' = pages
        /\ children' = children
        /\ handlers' = handlers
        /\ NumBack(last'.page) = 1
        /\ \A t \in Sessions : t # last'.session => current'[t] = current[t]]_vars

\* A back press took a session from a page that still carries its
\* back-control to another page.
C16_Witness ==
    /\ Done("back_press")
    /\ current[last.session] = last.returned
    /\ last.returned # last.page
    /\ NumBack(last.page) = 1

(* C18: a page carries a back-control if and only if a navigate() call has *)
(* targeted it: no page has one after construction, a page gets one in the *)
(* step that first targets it, and no step removes one; a page no category *)
(* leads to never has one.                                                 *)
Listers(p) ==
    {q \in DOMAIN pages : \E j \in DOMAIN pages[q].items :
        /\ pages[q].items[j].kind = "category"
        /\ pages[q].items[j].navigate_to = p}

C18_BackIffTargeted ==
    /\ [](last.op = "none" => \A p \in DOMAIN children : NumBack(p) = 0)
    /\ [](\A p \in DOMAIN children : Listers(p) = {} => NumBack(p) = 0)
    /\ [][\A p \in DOMAIN children :
            (NumBack(p)' >= 1) <=>
                \/ NumBack(p) >= 1
                \/ last'.op = "category_select" /\ last'.returned = p]_vars

\* After an item selection, the item page still has its back-control, while
\* the top page and one page that some category leads to have none.
C18_Witness ==
    /\ last.op = "item_select"
    /\ NumBack(last.page) = 1
    /\ \E p \in DOMAIN children : Listers(p) = {} /\ NumBack(p) = 0
    /\ \E p \in DOMAIN children : Listers(p) # {} /\ NumBack(p) = 0

(* C19: every back-control found on a page P is bound to a handler whose   *)
(* to_page is P and whose from_page lists a category that leads to P.      *)
C19_BindingWellFormed ==
    \A p \in DOMAIN children : \A h \in BoundTo(p) :
        /\ h \in DOMAIN handlers
        /\ handlers[h].to_page = p
        /\ handlers[h].from_page \in Listers(p)

\* Every page that a category leads to carries a back-control, and they are
\* bound to more than one from_page.
C19_Witness ==
    /\ \A p \in DOMAIN children : Listers(p) # {} => NumBack(p) = 1
    /\ \E p, q \in DOMAIN children : \E h \in BoundTo(p), g \in BoundTo(q) :
          handlers[h].from_page # handlers[g].from_page

(* C13: every constructed page carries exactly one selection widget, in    *)
(* every state: a CategorySelector over the page's listing when the        *)
(* listing holds categories, an ItemSelector over it when it holds items;  *)
(* its controls are that widget plus at most one back-control.             *)
Holds(p, kind) == \E j \in DOMAIN pages[p].items : pages[p].items[j].kind = kind

C13_OneWidget ==
    \A p \in DOMAIN pages :
        /\ Cardinality({i \in DOMAIN children[p] :
                children[p][i].type \in {"CategorySelector", "ItemSelector"}}) = 1
        /\ Holds(p, "category") =>
              \E i \in DOMAIN children[p] :
                  children[p][i] = [type |-> "CategorySelector", categories |-> pages[p].items]
        /\ Holds(p, "item") =>
              \E i \in DOMAIN children[p] :
                  /\ children[p][i].type = "ItemSelector"
                  /\ children[p][i].items = pages[p].items
                  /\ children[p][i].on_select =
                        (IF pages[p].on_select = "None"
                         THEN "on_select_default" ELSE pages[p].on_select)
        /\ NumBack(p) <= 1
        /\ Len(children[p]) = 1 + NumBack(p)

(* C15: in the chain catalog Top -> A -> B, a back press on B shows A,      *)
(* never Top, and a following back press on A shows the page A's           *)
(* back-control was bound to when it was created, Top; a back-control      *)
(* keeps one (from_page, to_page) pair and nothing else is remembered.     *)
C15_SingleLevelBack ==
    /\ [][\A s \in Sessions : BackStep(s) =>
            /\ current'[s] \in Listers(current[s])
            /\ \E h \in BoundTo(current[s]) : current'[s] = handlers[h].from_page
            /\ current[s] = 1 => current'[s] = 2
            /\ current[s] = 2 => current'[s] = Len(ChainListings)]_vars
    /\ [](\A s \in Sessions : NumBack(current[s]) = 1 => ENABLED BackStep(s))
    /\ [](\A h \in DOMAIN handlers : DOMAIN handlers[h] = {"to_page", "from_page"})
    /\ [](Len(handlers) = Cardinality({p \in DOMAIN children : NumBack(p) = 1}))

\* A back press on A showed Top after B had been reached through A.
C15_Witness ==
    /\ Done("back_press")
    /\ Listers(last.returned) = {}
    /\ current[last.session] = last.returned
    /\ \E p \in DOMAIN children : last.page \in Listers(p) /\ NumBack(p) = 1

(* C17: within a category selection the chosen id is resolved first, then  *)
(* the back-control is ensured on the target page, and only then is the    *)
(* target page rendered: a selection that resolves nothing adds and        *)
(* renders nothing, and every page given to the render by a category       *)
(* selection already carries a back-control.                               *)
C17_RenderAfterNavigate ==
    last.op = "category_select" =>
        IF \A j \in DOMAIN pages[last.page].items : pages[last.page].items[j].id # last.value
        THEN /\ last.returned = 0
             /\ ~last.added
             /\ last.shown = <<>>
        ELSE /\ last.returned # 0
             /\ \E i \in DOMAIN last.shown : last.shown[i].type = "BackButton"
             /\ last.shown = children[last.returned]
             /\ last.error \in {"none", "HTTPException"}

\* A category selection has added the back-control of its target and the
\* view it rendered carries it.
C17_Witness ==
    /\ Done("category_select")
    /\ last.added
    /\ \E i \in DOMAIN last.shown : last.shown[i] = BackButton(last.handler)

(* C14: for every item with a non-negative price p on a page of a shop     *)
(* with currency c, the label of the item's field contains p in decimal    *)
(* with a comma between every group of three digits counted from the       *)
(* right (none below 1000), followed by c.                                 *)

\* The number a sequence of digit characters and commas denotes
RECURSIVE ValueOf(_)
ValueOf(text) ==
    IF text = <<>> THEN 0
    ELSE LET c == text[Len(text)]
             rest == SubSeq(text, 1, Len(text) - 1)
         IN IF c = "," THEN ValueOf(rest)
            ELSE 10 * ValueOf(rest) + (CHOOSE d \in 0..9 : DigitChar(d) = c)

\* text is p in decimal, no leading zero, and its commas are exactly the
\* characters that have a positive multiple of three digits to their right
Grouped(text, p) ==
    /\ text # <<>>
    /\ \A i \in DOMAIN text : text[i] \in {","} \cup {DigitChar(d) : d \in 0..9}
    /\ \A i \in DOMAIN text : (text[i] = ",") <=> ((Len(text) - i + 1) % 4 = 0)
    /\ text[1] # ","
    /\ text[1] = "0" => Len(text) = 1
    /\ ValueOf(text) = p

C14_PriceFormatted ==
    \A q \in DOMAIN pages : \A k \in DOMAIN pages[q].items :
        pages[q].items[k].kind = "item" =>
            LET label == pages[q].embed[k].name IN
            \E i, j \in DOMAIN label :
                /\ i <= j
                /\ Grouped(SubSeq(label, i, j), pages[q].items[k].price)
                /\ \E n \in DOMAIN label : n > j /\ label[n] = pages[q].shop.currency

\* A page of the shop that trades in gold lists an item whose price needs
\* two commas and has a zero in each of its groups.
C14_Witness ==
    /\ last.op = "build"
    /\ Len(pages) = 1
    /\ pages[1].shop.currency = "gold"
    /\ pages[1].items[1].price = 1090109

(* C20: navigate() checks for a back-control and adds one in a single step *)
(* of the callback, and a callback is suspended only at the render, after  *)
(* navigate() has returned; so whatever the interleaving of the sessions'  *)
(* callbacks, a page targeted by category selections carries exactly one   *)
(* back-control: a step changes the number of back-controls of a page only *)
(* from none to one, in the step in which a selection targeting the page   *)
(* reaches its render.                                                     *)
C20_AtomicCheckAndAdd ==
    /\ [](\A s \in Sessions :
            pending[s].op = "category_select" => NumBack(pending[s].page) = 1)
    /\ [](\A p \in DOMAIN children : NumBack(p) <= 1)
    /\ [][\A p \in DOMAIN children :
            Len(BackButtons(children'[p])) # Len(BackButtons(children[p])) =>
                /\ BackButtons(children[p]) = <<>>
                /\ Len(BackButtons(children'[p])) = 1
                /\ \E s \in Sessions :
                    /\ pending[s] = NoRender
                    /\ pending'[s] = [op |-> "category_select", page |-> p]]_vars

\* Two sessions, on different pages, are both suspended at the render of
\* selections that target the same page.
C20_Witness ==
    \E s, t \in Sessions :
        /\ s # t
        /\ current[s] # current[t]
        /\ pending[s].op = "category_select"
        /\ pending[t] = pending[s]
        /\ NumBack(pending[s].page) = 1

====
